---- MODULE Spec2Model ----
(***************************************************************************)
(* Model of the database-access safety layer: the heuristic SQL risk       *)
(* checker (src/src/database/safety/risk_checker.py), the connector state  *)
(* machine (src/src/database/connectors/*.py) and the connection           *)
(* multiplexer DatabaseTool (src/src/database/db_tool.py).                 *)
(*                                                                         *)
(* Query text is a sequence of lexemes: word lexemes (maximal runs of \w   *)
(* characters, case folded because every pattern is IGNORECASE),           *)
(* whitespace lexemes (" " and "\n") and symbol lexemes.  Each regular     *)
(* expression of the source is an operator that matches exactly the        *)
(* lexeme sequences whose character string the expression matches.         *)
(*                                                                         *)
(* Scores are held in tenths of a point (points * ComplexityDivisor), so   *)
(* that min(total / 10.0, 1.0) * 5 stays an integer.                       *)
(***************************************************************************)
EXTENDS Integers, Sequences, FiniteSets, TLC

(***************************************************************************)
(* Lexemes                                                                 *)
(***************************************************************************)
Keywords ==
    { "DROP", "TABLE", "DATABASE", "TRUNCATE", "DELETE", "FROM", "UPDATE",
      "SET", "WHERE", "ALTER", "GRANT", "ALL", "REVOKE", "EXEC", "EXECUTE",
      "INSERT", "INTO", "MERGE", "CREATE", "INDEX", "VIEW", "SELECT",
      "SHUTDOWN", "BACKUP", "RESTORE", "JOIN", "INNER", "UNION", "GROUP",
      "BY", "HAVING", "ORDER", "CASE", "COUNT", "SUM", "AVG", "MIN", "MAX",
      "CONCAT", "SUBSTRING" }

\* Word lexemes that are no keyword.  "sp_help" stands for the words that
\* begin with sp_; MergedWord for a word that comment removal glued together.
MergedWord == "w_w"
SpWords == { "sp_help" }
\* A word stands before each keyword it begins with, character by character:
\* "DELETED" begins with "DELETE".
LongerWords == { << "DELETED", "DELETE" >> }
Identifiers ==
    { "users", "active", "id", "1", "5", "xp_cmdshell", MergedWord }
    \cup SpWords \cup { p[1] : p \in LongerWords }

Words == Keywords \cup Identifiers
Spaces == { " ", "\n" }
Symbols == { "*", "(", ")", ";", "=", "--", "/*", "*/" }
Lexemes == Words \cup Spaces \cup Symbols

IsWord(x) == x \in Words
IsWs(x) == x \in Spaces

\* A lexeme sequence is the lexing of its own character string: no two words
\* touch, and no "*/" or "/*" arises across a lexeme boundary.
WellLexed(t) ==
    \A i \in 1..(Len(t) - 1) :
        /\ ~(IsWord(t[i]) /\ IsWord(t[i + 1]))
        /\ ~(t[i] \in {"*", "/*"} /\ t[i + 1] = "/*")
        /\ ~(t[i] = "*/" /\ t[i + 1] \in {"*", "*/"})

(***************************************************************************)
(* Matching helpers                                                        *)
(***************************************************************************)
\* The first index >= i that holds no whitespace (Len(t) + 1 at the end).
RECURSIVE SkipWs(_, _)
SkipWs(t, i) == IF i <= Len(t) /\ IsWs(t[i]) THEN SkipWs(t, i + 1) ELSE i

\* \s+ after lexeme i: the index that follows the whitespace run, 0 when
\* lexeme i is not followed by whitespace.
After(t, i) == IF i + 1 <= Len(t) /\ IsWs(t[i + 1]) THEN SkipWs(t, i + 2) ELSE 0

\* \s*$ from index i: only whitespace is left.
RestWs(t, i) == SkipWs(t, i) = Len(t) + 1

\* \bA\s+B\b for word sets: some A is followed, after whitespace, by some B.
Pair(t, A, B) ==
    \E i \in 1..Len(t) :
        /\ t[i] \in A
        /\ After(t, i) \in 1..Len(t)
        /\ t[After(t, i)] \in B

\* \bA\b
HasWord(t, A) == \E i \in 1..Len(t) : t[i] \in A

\* len(re.findall(\bA\b)) for a word set A.
CountWords(t, A) == Cardinality({ i \in 1..Len(t) : t[i] \in A })

\* len(re.findall(\bA\s+B\b))
CountPairs(t, A, B) ==
    Cardinality({ i \in 1..Len(t) :
        /\ t[i] \in A
        /\ After(t, i) \in 1..Len(t)
        /\ t[After(t, i)] \in B })

\* \bUPDATE\s+\w+\s+SET\b matched with UPDATE at i: the index of SET, else 0.
UpdateSetAt(t, i) ==
    IF t[i] = "UPDATE" /\ After(t, i) \in 1..Len(t) /\ IsWord(t[After(t, i)])
    THEN LET j == After(t, i)
         IN IF After(t, j) \in 1..Len(t) /\ t[After(t, j)] = "SET"
            THEN After(t, j) ELSE 0
    ELSE 0

UpdateSet(t) == \E i \in 1..Len(t) : UpdateSetAt(t, i) # 0

\* \bDELETE\s+(FROM\s+)?\w+\s*$
DeleteTail(t) ==
    \E i \in 1..Len(t) :
        /\ t[i] = "DELETE"
        /\ After(t, i) \in 1..Len(t)
        /\ LET j == After(t, i)
           IN \/ /\ t[j] = "FROM"
                 /\ After(t, j) \in 1..Len(t)
                 /\ IsWord(t[After(t, j)])
                 /\ RestWs(t, After(t, j) + 1)
              \/ /\ IsWord(t[j])
                 /\ RestWs(t, j + 1)

(***************************************************************************)
(* SQLRiskChecker.__init__                                                 *)
(***************************************************************************)
PatternNames ==
    << "drop_table", "drop_database", "truncate_table", "delete_all",
       "update_all", "alter_table_drop", "grant_all", "revoke_all", "exec",
       "xp_cmdshell" >>

\* dangerous_patterns[name].search(query)
PatternMatches(name, t) ==
    CASE name = "drop_table" -> Pair(t, {"DROP"}, {"TABLE"})
      [] name = "drop_database" -> Pair(t, {"DROP"}, {"DATABASE"})
      [] name = "truncate_table" -> Pair(t, {"TRUNCATE"}, {"TABLE"})
      [] name = "delete_all" -> DeleteTail(t)
      [] name = "update_all" ->
            \* \bUPDATE\s+\w+\s+SET\b.*\bWHERE\s*$ ("." stops at a newline)
            \E i \in 1..Len(t) :
                /\ UpdateSetAt(t, i) # 0
                /\ \E m \in (UpdateSetAt(t, i) + 1)..Len(t) :
                      /\ t[m] = "WHERE"
                      /\ \A n \in (UpdateSetAt(t, i) + 1)..(m - 1) : t[n] # "\n"
                      /\ RestWs(t, m + 1)
      [] name = "alter_table_drop" ->
            \E i \in 1..Len(t) :
                /\ t[i] = "ALTER"
                /\ After(t, i) \in 1..Len(t)
                /\ t[After(t, i)] = "TABLE"
                /\ LET j == After(t, After(t, i))
                   IN /\ j \in 1..Len(t)
                      /\ IsWord(t[j])
                      /\ After(t, j) \in 1..Len(t)
                      /\ t[After(t, j)] = "DROP"
      [] name = "grant_all" -> Pair(t, {"GRANT"}, {"ALL"})
      [] name = "revoke_all" -> Pair(t, {"REVOKE"}, {"ALL"})
      [] name = "exec" -> HasWord(t, {"EXEC", "EXECUTE"})
      [] name = "xp_cmdshell" -> HasWord(t, {"xp_cmdshell"})

\* risk_weights, in points
W_dangerous_operation == 30
W_data_modification == 15
W_schema_change == 25
W_no_where_clause == 20
W_wildcard_select == 10
W_system_command == 40
W_complex_query == 5
max_risk_score == 100
\* risk_thresholds, in points
T_medium == 40
T_high == 70
T_critical == 90
\* the divisor of total / 10.0 in _calculate_complexity_score
ComplexityDivisor == 10

\* points in the model's unit
Pts(p) == p * ComplexityDivisor

(***************************************************************************)
(* The heuristics                                                          *)
(***************************************************************************)
_is_data_modification_query(t) ==
    \/ Pair(t, {"INSERT"}, {"INTO"})
    \/ UpdateSet(t)
    \/ Pair(t, {"DELETE"}, {"FROM"})
    \/ Pair(t, {"MERGE"}, {"INTO"})

_is_schema_change_query(t) ==
    \/ Pair(t, {"CREATE", "ALTER", "DROP"}, {"TABLE"})
    \/ Pair(t, {"CREATE", "DROP"}, {"INDEX"})
    \/ Pair(t, {"CREATE", "DROP"}, {"VIEW"})

\* Lexemes paired with their indices, so that SelectSeq can test an index.
Indexed(t) == [ i \in 1..Len(t) |-> << i, t[i] >> ]
Project(ps) == [ n \in 1..Len(ps) |-> ps[n][2] ]

\* re.sub(r"--.*$", "", query, flags=re.MULTILINE): every "--" goes with the
\* rest of its line; the newline stays.
StripLineComments(t) ==
    Project(SelectSeq(Indexed(t), LAMBDA p :
        ~\E a \in 1..p[1] : t[a] = "--" /\ \A k \in a..p[1] : t[k] # "\n"))

\* re.sub(r"/\*.*?\*/", "", q, flags=re.DOTALL): each "/*" goes with
\* everything up to the nearest "*/"; an unclosed "/*" stays.  Lexeme i is
\* inside a comment when a "/*" precedes it with no "*/" in between and a
\* "*/" is still to come.
StripBlockComments(t) ==
    Project(SelectSeq(Indexed(t), LAMBDA p :
        ~\E a \in 1..p[1] :
            /\ t[a] = "/*"
            /\ \A k \in (a + 1)..(p[1] - 1) : t[k] # "*/"
            /\ \E b \in p[1]..Len(t) : b > a /\ t[b] = "*/"))

\* Words that a removed comment left touching are one word.
Relex(t) ==
    LET glued == [ i \in 1..Len(t) |->
                     IF IsWord(t[i]) /\ i < Len(t) /\ IsWord(t[i + 1])
                     THEN MergedWord ELSE t[i] ]
    IN Project(SelectSeq(Indexed(glued), LAMBDA p :
           ~(p[1] > 1 /\ IsWord(t[p[1]]) /\ IsWord(t[p[1] - 1]))))

\* str.strip()
Strip(t) ==
    LET inner == { i \in 1..Len(t) : ~IsWs(t[i]) }
    IN IF inner = {} THEN << >>
       ELSE SubSeq(t, CHOOSE i \in inner : \A j \in inner : i <= j,
                      CHOOSE i \in inner : \A j \in inner : j <= i)

Uncommented(t) == Strip(Relex(StripBlockComments(StripLineComments(t))))

\* re.search(r"\bWHERE\b.*$", q): a WHERE with no newline after it.
WhereToEnd(q) ==
    \E m \in 1..Len(q) :
        /\ q[m] = "WHERE"
        /\ \A n \in (m + 1)..Len(q) : q[n] # "\n"

\* The heuristic looking at UPDATE statements only.
_has_missing_where_clause_UpdateOnly(t) ==
    LET q == Uncommented(t)
    IN IF UpdateSet(q) THEN ~WhereToEnd(q) ELSE FALSE

_has_missing_where_clause(t) ==
    LET q == Uncommented(t)
    IN IF UpdateSet(q) \/ DeleteTail(q) THEN ~WhereToEnd(q) ELSE FALSE

\* \bSELECT\s+\*\b: the star must touch a word for the closing \b to hold.
_has_wildcard_select(t) ==
    \E i \in 1..Len(t) :
        /\ t[i] = "SELECT"
        /\ After(t, i) \in 1..Len(t)
        /\ t[After(t, i)] = "*"
        /\ After(t, i) + 1 <= Len(t)
        /\ IsWord(t[After(t, i) + 1])

_contains_system_commands(t) ==
    \/ HasWord(t, {"SHUTDOWN"})
    \/ Pair(t, {"BACKUP"}, {"DATABASE"})
    \/ Pair(t, {"RESTORE"}, {"DATABASE"})
    \/ Pair(t, {"EXEC"}, SpWords)
    \/ HasWord(t, {"xp_cmdshell"})

\* \bSELECT\b.*\bFROM\b.*\(\s*SELECT\b with DOTALL: the greedy match runs to
\* the last "( SELECT", so findall yields at most one match.
Subqueries(t) ==
    IF \E i \in 1..Len(t) : \E j \in (i + 1)..Len(t) : \E k \in (j + 1)..Len(t) :
          /\ t[i] = "SELECT"
          /\ t[j] = "FROM"
          /\ t[k] = "("
          /\ SkipWs(t, k + 1) <= Len(t)
          /\ t[SkipWs(t, k + 1)] = "SELECT"
    THEN 1 ELSE 0

\* The sum of the factor counts, before the division by ComplexityDivisor.
ComplexityTotal(t) ==
    Subqueries(t)
    + CountWords(t, {"JOIN"})
    + CountWords(t, {"UNION"})
    + CountPairs(t, {"GROUP"}, {"BY"})
    + CountWords(t, {"HAVING"})
    + CountPairs(t, {"ORDER"}, {"BY"})
    + CountWords(t, {"CASE"})
    + CountWords(t, {"COUNT", "SUM", "AVG", "MIN", "MAX", "CONCAT", "SUBSTRING"})

Min(a, b) == IF a <= b THEN a ELSE b

\* _calculate_complexity_score(query) * risk_weights["complex_query"],
\* in tenths of a point.
_calculate_complexity_score(t) ==
    Min(ComplexityTotal(t), ComplexityDivisor) * W_complex_query

\* The thresholds with high starting where medium does.
_determine_risk_level_NoMedium(score) ==
    IF score >= Pts(T_critical) THEN "critical"
    ELSE IF score >= Pts(T_medium) THEN "high"
    ELSE "low"

_determine_risk_level(score) ==
    IF score >= Pts(T_critical) THEN "critical"
    ELSE IF score >= Pts(T_high) THEN "high"
    ELSE IF score >= Pts(T_medium) THEN "medium"
    ELSE "low"

\* ", ".join(names)
RECURSIVE Join(_)
Join(names) ==
    IF Len(names) = 0 THEN << >>
    ELSE IF Len(names) = 1 THEN names
    ELSE << Head(names), ", " >> \o Join(Tail(names))

\* Message texts are sequences of pieces; << >> is the empty string.
_recommendation(level, dangerous, warnings) ==
    IF level = "critical" THEN << "Query blocked: Critical risk level" >>
    ELSE IF level = "high" THEN << "High risk query" >>
    ELSE IF level = "medium" THEN << "Medium risk query" >>
    ELSE IF dangerous # << >> THEN << "Dangerous operations: " >> \o Join(dangerous)
    ELSE IF warnings # << >> THEN warnings[1]
    ELSE << "Query appears safe" >>

(***************************************************************************)
(* SQLRiskChecker.assess_query_risk                                        *)
(***************************************************************************)
\* The values "not parsed" can take for sqlparse.parse(query): the empty
\* string yields no statement, a text with any non-whitespace lexeme yields
\* one, and whether whitespace alone yields a statement depends on the
\* installed sqlparse release.
NotParsed(t) ==
    IF t = << >> THEN { TRUE }
    ELSE IF \A i \in 1..Len(t) : IsWs(t[i]) THEN BOOLEAN
    ELSE { FALSE }


\* The loop leaving at its first match.
DangerousOperations_FirstOnly(t) ==
    LET all == SelectSeq(PatternNames, LAMBDA name : PatternMatches(name, t))
    IN IF all = << >> THEN all ELSE << Head(all) >>

\* The names appended by the loop over dangerous_patterns, in dict order.
DangerousOperations(t) ==
    SelectSeq(PatternNames, LAMBDA name : PatternMatches(name, t))

RECURSIVE DangerWarnings(_)
DangerWarnings(names) ==
    IF names = << >> THEN << >>
    ELSE << << "Dangerous operation detected: ", Head(names) >> >>
         \o DangerWarnings(Tail(names))

Warnings(t) ==
    DangerWarnings(DangerousOperations(t))
    \o (IF _is_data_modification_query(t)
        THEN << << "Data modification operation detected" >> >> ELSE << >>)
    \o (IF _is_schema_change_query(t)
        THEN << << "Schema modification operation detected" >> >> ELSE << >>)
    \o (IF _has_missing_where_clause(t)
        THEN << << "UPDATE/DELETE query without WHERE clause" >> >> ELSE << >>)
    \o (IF _has_wildcard_select(t)
        THEN << << "Wildcard SELECT statement detected" >> >> ELSE << >>)
    \o (IF _contains_system_commands(t)
        THEN << << "System command detected" >> >> ELSE << >>)

\* score before the clamp, in tenths of a point
RawScore(t) ==
    Len(DangerousOperations(t)) * Pts(W_dangerous_operation)
    + (IF _is_data_modification_query(t) THEN Pts(W_data_modification) ELSE 0)
    + (IF _is_schema_change_query(t) THEN Pts(W_schema_change) ELSE 0)
    + (IF _has_missing_where_clause(t) THEN Pts(W_no_where_clause) ELSE 0)
    + (IF _has_wildcard_select(t) THEN Pts(W_wildcard_select) ELSE 0)
    + (IF _contains_system_commands(t) THEN Pts(W_system_command) ELSE 0)
    + _calculate_complexity_score(t)


\* The score left as summed.
ClampScore_Unclamped(score) == score

\* score = min(score, self.max_risk_score)
ClampScore(score) == Min(score, Pts(max_risk_score))

\* "safe" with the system-command heuristic leaving it alone.
SafeFlag_IgnoresSystemCommands(t) ==
    /\ SelectSeq(PatternNames, LAMBDA name : PatternMatches(name, t)) = << >>
    /\ ~_has_missing_where_clause(t)

\* the local "safe" after the heuristics ran
SafeFlag(t) ==
    /\ DangerousOperations(t) = << >>
    /\ ~_has_missing_where_clause(t)
    /\ ~_contains_system_commands(t)

ParseFailure ==
    [ risk_level |-> "high",
      risk_score |-> Pts(80),
      warnings |-> << << "Invalid SQL syntax" >> >>,
      dangerous_operations |-> << >>,
      is_safe |-> FALSE,
      recommendation |-> << "Unable to parse SQL query" >> ]

assess_query_risk(t, notParsed) ==
    IF notParsed THEN ParseFailure
    ELSE LET score == ClampScore(RawScore(t))
             level == _determine_risk_level(score)
         IN [ risk_level |-> level,
              risk_score |-> score,
              warnings |-> Warnings(t),
              dangerous_operations |-> DangerousOperations(t),
              is_safe |-> SafeFlag(t) /\ score < Pts(T_high),
              recommendation |->
                  _recommendation(level, DangerousOperations(t), Warnings(t)) ]

(***************************************************************************)
(* Bounds and inputs                                                       *)
(***************************************************************************)
\* concurrent multiplexer calls
NumReq == 2
\* multiplexer calls begun in one run
MaxCalls == 3
\* connector instances constructed in one run
MaxConn == 2
\* fragments concatenated into one text handed to the risk checker
MaxParts == 3

\* DatabaseConnection values the callers pass.
BaseConnection ==
    [ database_type |-> "postgresql", host |-> << "h" >>, port |-> 1,
      database |-> << "d" >>, username |-> << "u" >>, password |-> << "p" >>,
      ssl_mode |-> << >>, connection_timeout |-> 30, pool_size |-> 5 ]

Connections ==
    { BaseConnection,
      [BaseConnection EXCEPT !.port = 2],
      [BaseConnection EXCEPT !.database_type = "sqlite"],
      [BaseConnection EXCEPT !.password = << "q" >>, !.ssl_mode = << "require" >>,
                             !.connection_timeout = 5, !.pool_size = 1] }

\* DatabaseQuery.timeout and DatabaseQuery.max_rows as a caller leaves them,
\* and as a caller sets them.
DefaultLimits == [ timeout |-> 30, max_rows |-> "None" ]
TightLimits == [ timeout |-> 1, max_rows |-> 1 ]

\* Query texts the callers pass to the multiplexer.
QSelect == << "SELECT", " ", "id", " ", "FROM", " ", "users" >>
QDropTable == << "DROP", " ", "TABLE", " ", "users" >>
Queries == { QSelect, QDropTable }

\* Texts handed to the risk checker on its own.
Fragments ==
    { << " " >>, << "\n" >>, << ";" >>, << "*" >>, << "(" >>, << "--" >>,
      << "/*" >>, << "*/" >>, << "users" >>, << "WHERE" >>, << "SELECT" >>,
      << "FROM" >>, << "DELETE" >>, << "EXEC" >>, << "EXECUTE" >>,
      << "xp_cmdshell" >>, << "sp_help" >>, << "SHUTDOWN" >>, << "JOIN" >>,
      << "DROP", " ", "TABLE" >>, << "DROP", " ", "DATABASE" >>,
      << "TRUNCATE", " ", "TABLE" >>, << "DELETE", " ", "FROM", " ", "users" >>,
      << "UPDATE", " ", "users", " ", "SET" >>,
      << "ALTER", " ", "TABLE", " ", "users", " ", "DROP" >>,
      << "GRANT", " ", "ALL" >>, << "REVOKE", " ", "ALL" >>,
      << "INSERT", " ", "INTO" >>, << "CREATE", " ", "VIEW" >>,
      << "BACKUP", " ", "DATABASE" >>, << "GROUP", " ", "BY" >>,
      << "SELECT", " ", "*" >>,
      << "EXEC", " ", "xp_cmdshell", " ", "DROP", " ", "TABLE", " ", "users" >>,
      << "JOIN", " ", "UNION", " ", "CASE", " ", "HAVING", " ", "COUNT", " ",
         "ORDER", " ", "BY" >>,
      << "SELECT", " ", "id", " ", "FROM", " ", "(", "SELECT", " ", "id", ")" >> }

NamedTexts ==
    { << "SELECT", " ", "*", " ", "FROM", " ", "users" >>,
      << "DELETE", " ", "FROM", " ", "users" >>,
      << "UPDATE", " ", "users", " ", "SET", " ", "active", "=", "1", " ",
         "WHERE", " ", "id", "=", "5" >> }

\* The well-lexed concatenations of at most n fragments; a prefix of a
\* well-lexed text is well lexed, so the texts grow one fragment at a time.
RECURSIVE Concatenations(_)
Concatenations(n) ==
    IF n = 0 THEN { << >> }
    ELSE LET shorter == Concatenations(n - 1)
         IN shorter \cup { t \in { u \o f : u \in shorter, f \in Fragments } :
                              WellLexed(t) }

RiskTexts ==
    Concatenations(MaxParts)
    \cup NamedTexts \cup Queries \cup { << >> }

(***************************************************************************)
(* State                                                                   *)
(***************************************************************************)
VARIABLES
    text,         \* the text handed to the risk checker on its own
    ra,           \* the assessment it returned
    _connectors,  \* DatabaseTool._connectors, in dict (insertion) order
    conn,         \* the connector instances constructed so far
    req,          \* the multiplexer calls in flight, one per caller
    calls,        \* calls begun so far
    overlapped,   \* two calls were in flight at the same time
    teardown,     \* close_connection or close_all_connections was called
    connector,    \* one connector instance driven on its own
    workload      \* the descriptors, limits and queries the callers of this run pass

vars ==
    << text, ra, _connectors, conn, req, calls, overlapped, teardown, connector,
       workload >>

ReqIds == 1..NumReq
None == [ kind |-> "None" ]

(***************************************************************************)
(* BaseDatabaseConnector._parse_query_type                                 *)
(***************************************************************************)
QueryTypes == << "SELECT", "INSERT", "UPDATE", "DELETE", "CREATE", "ALTER", "DROP" >>

\* The test comparing the whole leading word.
StartsWith_WholeWord(t, kw) == t # << >> /\ Head(t) = kw

\* str.startswith on the upper-cased text: the characters of kw open the
\* text, so the first lexeme is kw or a longer word that begins with kw.
StartsWith(t, kw) ==
    t # << >> /\ (Head(t) = kw \/ << Head(t), kw >> \in LongerWords)

_parse_query_type(query) ==
    LET q == Strip(query)
        hits == SelectSeq(QueryTypes, LAMBDA kw : StartsWith(q, kw))
    IN IF hits # << >> THEN Head(hits) ELSE "SELECT"

(***************************************************************************)
(* DatabaseTool: the connector cache                                       *)
(***************************************************************************)
_connector_types == { "postgresql", "mysql", "oracle" }

\* A key that also tells passwords apart.
_conn_key_WithPassword(c) ==
    << c.database_type, ":" >> \o c.host \o << ":", ToString(c.port), ":" >>
    \o c.database \o << ":" >> \o c.username \o << ":" >> \o c.password

\* f"{c.database_type}:{c.host}:{c.port}:{c.database}:{c.username}"
_conn_key(c) ==
    << c.database_type, ":" >> \o c.host \o << ":", ToString(c.port), ":" >>
    \o c.database \o << ":" >> \o c.username

\* dict.get(key): the connector's id, 0 for None.
Get(cache, key) ==
    IF \E i \in 1..Len(cache) : cache[i].key = key
    THEN cache[CHOOSE i \in 1..Len(cache) : cache[i].key = key].c
    ELSE 0


\* _get_connector without the assignment to the cache.
Put_NotStored(cache, key, c) == cache

\* cache[key] = c
Put(cache, key, c) ==
    IF Get(cache, key) # 0
    THEN [ i \in 1..Len(cache) |->
             IF cache[i].key = key THEN [ key |-> key, c |-> c ] ELSE cache[i] ]
    ELSE Append(cache, [ key |-> key, c |-> c ])

\* A teardown that leaves the entry in the cache.
Del_KeepsEntry(cache, key) == cache

\* del cache[key], for a key that is present
Del(cache, key) == SelectSeq(cache, LAMBDA e : e.key # key)

(***************************************************************************)
(* Values returned and exceptions raised                                   *)
(***************************************************************************)
Exc(type, msg) == [ kind |-> "exception", type |-> type, msg |-> msg ]

NotConnected == Exc("RuntimeError", << "Not connected" >>)
Unsupported(c) == Exc("ValueError", << "Unsupported database type: ", c.database_type >>)
ConnectionFailed == Exc("ConnectionError", << "driver: could not connect" >>)
DriverError == Exc("DriverError", << "driver: statement failed" >>)
OtherError == Exc("AttributeError", << "'NoneType' object has no attribute 'cursor'" >>)
CloseError == Exc("DriverError", << "driver: close failed" >>)
MissingKey(key) == Exc("KeyError", << "'" >> \o key \o << "'" >>)

\* QueryResult(success=False, error_message=..., execution_time=time.time() - start,
\*             query_type=QueryType.SELECT)
FailedResult(msg) ==
    [ kind |-> "QueryResult", success |-> FALSE, data |-> FALSE, row_count |-> 0,
      execution_time |-> "multiplexer", error_message |-> msg,
      query_type |-> "SELECT" ]

\* The connector's result of a statement the driver ran; data is TRUE when
\* rows are present, execution_time is the connector's.
\* The number of rows a statement finds or changes.
RowsFound == 2

DriverResult(query) ==
    [ kind |-> "QueryResult", success |-> TRUE,
      data |-> _parse_query_type(query) = "SELECT", row_count |-> RowsFound,
      execution_time |-> "connector", error_message |-> << >>,
      query_type |-> _parse_query_type(query) ]

\* The result handed on with the connector's execution_time.
Stamped_Unstamped(res) == res

\* res.execution_time = time.time() - start
Stamped(res) == [ res EXCEPT !.execution_time = "multiplexer" ]

Assessment(a) == [ kind |-> "QueryRiskAssessment", a |-> a ]
Bool(b) == [ kind |-> "bool", b |-> b ]
Value(what) == [ kind |-> what ]

\* The assessment validate_query builds in its except clause.
ValidationFailed(e) ==
    [ risk_level |-> "high", risk_score |-> Pts(100), warnings |-> << >>,
      dangerous_operations |-> << >>, is_safe |-> FALSE,
      recommendation |-> << "Validation failed: " >> \o e.msg ]

(***************************************************************************)
(* The calls                                                               *)
(***************************************************************************)
Idle ==
    [ op |-> "none", pc |-> "idle", connection |-> None, query |-> << >>,
      validate_safety |-> FALSE, c |-> 0, items |-> << >>,
      outcome |-> "none", value |-> None,
      \* history of the call
      failure |-> None, resolved |-> FALSE, connected |-> FALSE,
      executed |-> FALSE, sent |-> << >>, prior |-> << >>, closed |-> << >>,
      syntax_ok |-> "none",
      \* fields of the DatabaseQuery that no code reads
      timeout |-> DefaultLimits.timeout, max_rows |-> DefaultLimits.max_rows ]


\* test_connection without its try / except.
Catches_TestUnguarded(op) == op \in { "execute_query", "validate_query" }

\* The operations whose body is wrapped in try / except Exception.
Catches(op) == op \in { "execute_query", "validate_query", "test_connection" }

Returned(rq, v) == [ rq EXCEPT !.pc = "done", !.outcome = "returned", !.value = v ]

\* An exception e reaches the top of the call's body.
Fail(rq, e) ==
    LET f == [ rq EXCEPT !.failure = e ]
    IN IF ~Catches(rq.op)
       THEN [ f EXCEPT !.pc = "done", !.outcome = "raised", !.value = e ]
       ELSE CASE rq.op = "execute_query" -> Returned(f, FailedResult(e.msg))
              [] rq.op = "validate_query" -> Returned(f, Assessment(ValidationFailed(e)))
              [] rq.op = "test_connection" -> Returned(f, Bool(FALSE))


\* The gate with the is_safe test left out.
Blocked_NeverBlocks(validate_safety, a) == FALSE

\* The safety gate of execute_query.
Blocked(validate_safety, a) == validate_safety /\ ~a.is_safe

\* error_message=ra.recommendation or "Query blocked"
BlockedMessage(a) ==
    IF a.recommendation = << >> THEN << "Query blocked" >> ELSE a.recommendation

\* validate_query forcing is_safe and leaving the recommendation as derived.
\* risk_checker.assess_query_risk on the queries the callers pass: the
\* assessment is a function of the text alone, computed here once per text.
Assessed ==
    [ query \in Queries, notParsed \in BOOLEAN |-> assess_query_risk(query, notParsed) ]

Validated_KeepsRecommendation(rq, syntax_ok, notParsed) ==
    LET a == Assessed[rq.query, notParsed]
    IN [ rq EXCEPT !.pc = "done", !.outcome = "returned",
                   !.syntax_ok = IF syntax_ok THEN "valid" ELSE "invalid",
                   !.value = [ kind |-> "QueryRiskAssessment",
                               a |-> IF ~syntax_ok THEN [ a EXCEPT !.is_safe = FALSE ]
                                     ELSE a ] ]

\* validate_query after the syntax check answered.
Validated(rq, syntax_ok, notParsed) ==
    LET a == Assessed[rq.query, notParsed]
    IN Returned([ rq EXCEPT !.syntax_ok = IF syntax_ok THEN "valid" ELSE "invalid" ],
         Assessment(
           IF ~syntax_ok
           THEN [ a EXCEPT !.is_safe = FALSE,
                           !.recommendation = << "Query has syntax errors" >> ]
           ELSE a))

\* The call goes on with connector c in hand, up to its next await of the
\* worker pool.
\* A driver call that also carries the limits of the query.
Arguments_WithLimits(rq) == << rq.query, rq.timeout, rq.max_rows >>

\* c.execute_query(query.query, query.parameters): what the connector is
\* handed of the DatabaseQuery.
Arguments(rq) == << rq.query >>

Use(rq0, c, is_connected, notParsed) ==
    LET rq == [ rq0 EXCEPT !.c = c, !.executed = (rq0.op = "execute_query"),
                           !.sent = IF rq0.op = "execute_query" THEN Arguments(rq0)
                                    ELSE << >> ]
    IN CASE rq.op \in { "execute_query", "get_database_schema", "list_tables" } ->
              IF ~is_connected THEN Fail(rq, NotConnected)
              ELSE [ rq EXCEPT !.pc = "driver" ]
         [] rq.op = "validate_query" ->
              IF ~is_connected THEN Validated(rq, FALSE, notParsed)
              ELSE [ rq EXCEPT !.pc = "driver" ]
         [] rq.op = "test_connection" ->
              IF ~is_connected THEN Returned(rq, Bool(FALSE))
              ELSE [ rq EXCEPT !.pc = "driver" ]

\* A constructor that sets the flag before any connect.
NewConnector_FlagSet(connection) ==
    [ connection |-> connection, _is_connected |-> TRUE, _connection |-> FALSE,
      native |-> "none", close_invoked |-> FALSE ]

\* cls(connection): BaseDatabaseConnector.__init__ and the backend's __init__.
\* native is the driver's side of the connection.
NewConnector(connection) ==
    [ connection |-> connection, _is_connected |-> FALSE, _connection |-> FALSE,
      native |-> "none",
      \* history: close() was called on the connector
      close_invoked |-> FALSE ]

\* Driver calls made on the scheduling thread itself.
OnLoopThread_DriverCalls == { "driver" }

\* The positions at which a call holds the scheduling thread while it waits:
\* none, every driver call is awaited through loop.run_in_executor.
OnLoopThread == { }

\* The scheduling thread can run a step of call r: no other call holds it.
LoopFree(r) == \A s \in ReqIds \ { r } : req[s].pc \notin OnLoopThread

\* A caller begins a call: the first free slot takes it.
Begin(r, op) ==
    /\ LoopFree(r)
    /\ req[r].pc = "idle"
    /\ \A s \in ReqIds : s < r => req[s].pc # "idle"
    /\ calls < MaxCalls
    /\ calls' = calls + 1
    /\ overlapped' = (overlapped \/ \E s \in ReqIds : req[s].pc \notin { "idle", "done" })
    /\ teardown' = (teardown \/ op \in { "close_connection", "close_all_connections" })
    /\ UNCHANGED << text, ra, connector, workload >>

Started(op, connection, query, validate_safety) ==
    [ Idle EXCEPT !.op = op, !.connection = connection, !.query = query,
                  !.validate_safety = validate_safety, !.prior = _connectors ]

\* _get_connector and what follows it, up to the first await of the pool.
Resolve(r, rq0, notParsed) ==
    LET rq == [ rq0 EXCEPT !.resolved = TRUE ]
        key == _conn_key(rq.connection)
        hit == Get(_connectors, key)
    IN IF hit # 0
       THEN /\ req' = [ req EXCEPT ![r] = Use(rq, hit, conn[hit]._is_connected, notParsed) ]
            /\ UNCHANGED << conn, _connectors >>
       ELSE IF rq.connection.database_type \notin _connector_types
       THEN /\ req' = [ req EXCEPT ![r] = Fail(rq, Unsupported(rq.connection)) ]
            /\ UNCHANGED << conn, _connectors >>
       ELSE /\ Len(conn) < MaxConn
            /\ conn' = Append(conn, NewConnector(rq.connection))
            /\ req' = [ req EXCEPT ![r] =
                          [ rq EXCEPT !.c = Len(conn) + 1, !.connected = TRUE,
                                      !.pc = "connect" ] ]
            /\ UNCHANGED _connectors

ExecuteQuery(r) ==
    \E connection \in workload.connections, query \in workload.queries, validate_safety \in BOOLEAN,
       notParsed \in BOOLEAN, limits \in workload.limits :
        /\ notParsed \in NotParsed(query)
        /\ Begin(r, "execute_query")
        /\ LET rq == [ Started("execute_query", connection, query, validate_safety)
                         EXCEPT !.timeout = limits.timeout, !.max_rows = limits.max_rows ]
               a == assess_query_risk(query, notParsed)
           IN IF Blocked(validate_safety, a)
              THEN /\ req' = [ req EXCEPT ![r] = Returned(rq, FailedResult(BlockedMessage(a))) ]
                   /\ UNCHANGED << conn, _connectors >>
              ELSE Resolve(r, rq, notParsed)

ValidateQuery(r) ==
    \E connection \in workload.connections, query \in workload.queries, notParsed \in BOOLEAN :
        /\ notParsed \in NotParsed(query)
        /\ Begin(r, "validate_query")
        /\ Resolve(r, Started("validate_query", connection, query, FALSE), notParsed)

TestConnection(r) ==
    \E connection \in workload.connections :
        /\ Begin(r, "test_connection")
        /\ Resolve(r, Started("test_connection", connection, << >>, FALSE), FALSE)

GetDatabaseSchema(r) ==
    \E connection \in workload.connections :
        /\ Begin(r, "get_database_schema")
        /\ Resolve(r, Started("get_database_schema", connection, << >>, FALSE), FALSE)

ListTables(r) ==
    \E connection \in workload.connections :
        /\ Begin(r, "list_tables")
        /\ Resolve(r, Started("list_tables", connection, << >>, FALSE), FALSE)

\* The worker pool hands back the result of the backend's connect.
ConnectReturn(r) ==
    /\ LoopFree(r)
    /\ req[r].pc = "connect"
    /\ \E ok \in BOOLEAN, notParsed \in BOOLEAN :
        /\ notParsed \in NotParsed(req[r].query)
        /\ IF ok
           THEN /\ conn' = [ conn EXCEPT ![req[r].c] =
                               [ @ EXCEPT !._connection = TRUE, !._is_connected = TRUE,
                                          !.native = "open" ] ]
                /\ _connectors' = Put(_connectors, _conn_key(req[r].connection), req[r].c)
                /\ req' = [ req EXCEPT ![r] = Use(req[r], req[r].c, TRUE, notParsed) ]
           ELSE /\ req' = [ req EXCEPT ![r] = Fail(req[r], ConnectionFailed) ]
                /\ UNCHANGED << conn, _connectors >>
    /\ UNCHANGED << text, ra, calls, overlapped, teardown, connector, workload >>

\* The worker pool hands back the result of a statement run on the driver.
DriverOutcomes == { "ok", "driver_error", "other_error" }

Answered(rq, out, notParsed) ==
    CASE rq.op = "execute_query" ->
            IF out = "ok" THEN Returned(rq, Stamped(DriverResult(rq.query)))
            ELSE Fail(rq, IF out = "driver_error" THEN DriverError ELSE OtherError)
      [] rq.op = "validate_query" ->
            IF out = "other_error" THEN Fail(rq, OtherError)
            ELSE Validated(rq, out = "ok", notParsed)
      [] rq.op = "test_connection" -> Returned(rq, Bool(out = "ok"))
      [] rq.op \in { "get_database_schema", "list_tables" } ->
            IF out = "ok" THEN Returned(rq, Value(rq.op))
            ELSE Fail(rq, IF out = "driver_error" THEN DriverError ELSE OtherError)

DriverReturn(r) ==
    /\ LoopFree(r)
    /\ req[r].pc = "driver"
    /\ \E out \in DriverOutcomes, notParsed \in BOOLEAN :
        /\ notParsed \in NotParsed(req[r].query)
        /\ req' = [ req EXCEPT ![r] = Answered(req[r], out, notParsed) ]
    /\ UNCHANGED << text, ra, _connectors, conn, calls, overlapped, teardown, connector, workload >>

(***************************************************************************)
(* Teardown                                                                *)
(***************************************************************************)
\* disconnect() after the pool closed the native connection, then the rest
\* of BaseDatabaseConnector.close.
Disconnected(cs, c) ==
    [ cs EXCEPT ![c] = [ @ EXCEPT !._connection = FALSE, !._is_connected = FALSE,
                                  !.native = "closed" ] ]

\* close() on a connector that needs no driver call: disconnect() finds no
\* native connection, or close() finds the connector not connected.
ClosedWithoutDriver(cs, c) ==
    [ cs EXCEPT ![c] = [ @ EXCEPT !._is_connected = FALSE, !.close_invoked = TRUE ] ]

\* close() was called on connector c and awaits the worker pool.
CloseInvoked(cs, c) == [ cs EXCEPT ![c] = [ @ EXCEPT !.close_invoked = TRUE ] ]

\* close() awaits the worker pool: connected, with a native connection.
ClosesOnDriver(cs, c) == cs[c]._is_connected /\ cs[c]._connection

\* close_connection once conn.close() returned: del self._connectors[key]
Deleted(rq, cache, cs) ==
    LET key == _conn_key(rq.connection)
    IN IF Get(cache, key) = 0
       THEN [ rq |-> Fail(rq, MissingKey(key)), cache |-> cache, conn |-> cs ]
       ELSE [ rq |-> Returned(rq, None), cache |-> Del(cache, key), conn |-> cs ]

CloseConnection(r) ==
    \E connection \in workload.connections :
        /\ Begin(r, "close_connection")
        /\ LET rq == Started("close_connection", connection, << >>, FALSE)
               c == Get(_connectors, _conn_key(connection))
               closing == [ rq EXCEPT !.c = c, !.closed = << c >> ]
           IN IF c = 0
              THEN /\ req' = [ req EXCEPT ![r] = Returned(rq, None) ]
                   /\ UNCHANGED << conn, _connectors >>
              ELSE IF ClosesOnDriver(conn, c)
              THEN /\ req' = [ req EXCEPT ![r] = [ closing EXCEPT !.pc = "close" ] ]
                   /\ conn' = CloseInvoked(conn, c)
                   /\ UNCHANGED _connectors
              ELSE LET d == Deleted(closing, _connectors, ClosedWithoutDriver(conn, c))
                   IN /\ req' = [ req EXCEPT ![r] = d.rq ]
                      /\ _connectors' = d.cache
                      /\ conn' = d.conn

\* The loop of close_all_connections over the snapshot items, from the head
\* of items up to the next await of the worker pool or the end of the call.
RECURSIVE CloseLoop(_, _, _, _)
CloseLoop(rq, items, cache, cs) ==
    IF items = << >>
    THEN [ rq |-> Returned([ rq EXCEPT !.items = << >> ], None), cache |-> cache, conn |-> cs ]
    ELSE LET key == Head(items).key
             c == Head(items).c
             closing == [ rq EXCEPT !.c = c, !.items = items, !.closed = Append(@, c) ]
         IN IF ClosesOnDriver(cs, c)
            THEN [ rq |-> [ closing EXCEPT !.pc = "close" ], cache |-> cache,
                   conn |-> CloseInvoked(cs, c) ]
            ELSE IF Get(cache, key) = 0
            THEN [ rq |-> Fail(closing, MissingKey(key)), cache |-> cache,
                   conn |-> ClosedWithoutDriver(cs, c) ]
            ELSE CloseLoop(closing, Tail(items), Del(cache, key), ClosedWithoutDriver(cs, c))

\* What close_all_connections does when c.close() raised e: the finally
\* clause deletes the key, then e leaves the loop.
CloseRaised(rq, cache, cs, e) ==
    LET key == Head(rq.items).key
    IN IF Get(cache, key) = 0
       THEN [ rq |-> Fail(rq, MissingKey(key)), cache |-> cache, conn |-> cs ]
       ELSE [ rq |-> Fail(rq, e), cache |-> Del(cache, key), conn |-> cs ]

CloseAllConnections(r) ==
    /\ Begin(r, "close_all_connections")
    /\ LET rq == Started("close_all_connections", None, << >>, FALSE)
           d == CloseLoop(rq, _connectors, _connectors, conn)
       IN /\ req' = [ req EXCEPT ![r] = d.rq ]
          /\ _connectors' = d.cache
          /\ conn' = d.conn

\* The worker pool hands back the result of closing the native connection.
CloseReturn(r) ==
    /\ LoopFree(r)
    /\ req[r].pc = "close"
    /\ \E ok \in BOOLEAN :
        LET rq == req[r]
            d == IF rq.op = "close_connection"
                 THEN IF ok
                      THEN Deleted(rq, _connectors, Disconnected(conn, rq.c))
                      ELSE [ rq |-> Fail(rq, CloseError), cache |-> _connectors, conn |-> conn ]
                 ELSE IF ok
                      THEN IF Get(_connectors, Head(rq.items).key) = 0
                           THEN [ rq |-> Fail(rq, MissingKey(Head(rq.items).key)),
                                  cache |-> _connectors, conn |-> Disconnected(conn, rq.c) ]
                           ELSE CloseLoop(rq, Tail(rq.items),
                                          Del(_connectors, Head(rq.items).key),
                                          Disconnected(conn, rq.c))
                      ELSE CloseRaised(rq, _connectors, conn, CloseError)
        IN /\ req' = [ req EXCEPT ![r] = d.rq ]
           /\ _connectors' = d.cache
           /\ conn' = d.conn
    /\ UNCHANGED << text, ra, calls, overlapped, teardown, connector, workload >>

\* The caller takes the result; its slot is free again.
Return(r) ==
    /\ LoopFree(r)
    /\ req[r].pc = "done"
    /\ req' = [ req EXCEPT ![r] = Idle ]
    /\ UNCHANGED << text, ra, _connectors, conn, calls, overlapped, teardown, connector, workload >>

(***************************************************************************)
(* The multiplexer under concurrent callers                                *)
(***************************************************************************)
Init ==
    /\ text = << >>
    /\ ra = None
    /\ _connectors = << >>
    /\ conn = << >>
    /\ req = [ r \in ReqIds |-> Idle ]
    /\ calls = 0
    /\ overlapped = FALSE
    /\ teardown = FALSE
    /\ connector = None
    /\ workload = [ connections |-> Connections, limits |-> { DefaultLimits },
                   queries |-> Queries ]

Next ==
    \E r \in ReqIds :
        \/ ExecuteQuery(r)
        \/ ValidateQuery(r)
        \/ TestConnection(r)
        \/ GetDatabaseSchema(r)
        \/ ListTables(r)
        \/ CloseConnection(r)
        \/ CloseAllConnections(r)
        \/ ConnectReturn(r)
        \/ DriverReturn(r)
        \/ CloseReturn(r)
        \/ Return(r)

Spec == Init /\ [][Next]_vars

\* Two descriptors with different identities whose fields hold the ":" that
\* _conn_key puts between fields.
CollidingConnections ==
    { [BaseConnection EXCEPT !.database = << "d", ":", "e" >>, !.username = << "u" >>],
      [BaseConnection EXCEPT !.database = << "d" >>, !.username = << "e", ":", "u" >>] }

KeyInit ==
    /\ text = << >>
    /\ ra = None
    /\ _connectors = << >>
    /\ conn = << >>
    /\ req = [ r \in ReqIds |-> Idle ]
    /\ calls = 0
    /\ overlapped = FALSE
    /\ teardown = FALSE
    /\ connector = None
    /\ workload = [ connections |-> CollidingConnections, limits |-> { DefaultLimits },
                   queries |-> Queries ]

KeySpec == KeyInit /\ [][Next]_vars

\* Two callers with descriptors of different keys; the worker pool answers
\* the second caller's driver calls, while the first caller's may stay out
\* for ever.
IndependentConnections == { BaseConnection, [BaseConnection EXCEPT !.port = 2] }

LiveInit ==
    /\ text = << >>
    /\ ra = None
    /\ _connectors = << >>
    /\ conn = << >>
    /\ req = [ r \in ReqIds |-> Idle ]
    /\ calls = 0
    /\ overlapped = FALSE
    /\ teardown = FALSE
    /\ connector = None
    /\ workload = [ connections |-> IndependentConnections, limits |-> { DefaultLimits },
                   queries |-> Queries ]

LiveSpec ==
    /\ LiveInit
    /\ [][Next]_vars
    /\ WF_vars(ConnectReturn(NumReq))
    /\ WF_vars(DriverReturn(NumReq))
    /\ WF_vars(CloseReturn(NumReq))

\* One descriptor, and callers that set the limits of their queries or
\* leave them alone.
LimitInit ==
    /\ text = << >>
    /\ ra = None
    /\ _connectors = << >>
    /\ conn = << >>
    /\ req = [ r \in ReqIds |-> Idle ]
    /\ calls = 0
    /\ overlapped = FALSE
    /\ teardown = FALSE
    /\ connector = None
    /\ workload = [ connections |-> { BaseConnection },
                   limits |-> { DefaultLimits, TightLimits },
                   queries |-> Queries ]

LimitSpec == LimitInit /\ [][Next]_vars

(***************************************************************************)
(* The risk checker on its own, over the bounded texts                     *)
(***************************************************************************)
RiskInit ==
    /\ text \in RiskTexts
    /\ ra = None
    /\ _connectors = << >>
    /\ conn = << >>
    /\ req = [ r \in ReqIds |-> Idle ]
    /\ calls = 0
    /\ overlapped = FALSE
    /\ teardown = FALSE
    /\ connector = None
    /\ workload = [ connections |-> Connections, limits |-> { DefaultLimits },
                   queries |-> Queries ]

AssessQueryRisk ==
    /\ ra = None
    /\ \E notParsed \in NotParsed(text) :
          ra' = Assessment(assess_query_risk(text, notParsed))
    /\ UNCHANGED << text, _connectors, conn, req, calls, overlapped, teardown, connector, workload >>

RiskNext == AssessQueryRisk

RiskSpec == RiskInit /\ [][RiskNext]_vars

(***************************************************************************)
(* One connector driven on its own by a sequential caller                  *)
(***************************************************************************)
\* operations run on the connector in one run
MaxOps == 3

\* PostgreSQLConnector, MySQLConnector, OracleConnector
Backends == { "postgresql", "mysql", "oracle" }

\* Statements handed to the connector.
ConnectorQueries ==
    { QSelect, QDropTable, << >>, << " " >>,
      << " ", "INSERT", " ", "INTO", " ", "users" >>,
      << "UPDATE", " ", "users", " ", "SET", " ", "active", "=", "1" >>,
      << "DELETE", " ", "FROM", " ", "users", "\n" >>,
      << "CREATE", " ", "TABLE", " ", "users" >>,
      << "ALTER", " ", "TABLE", " ", "users" >>,
      << "TRUNCATE", " ", "TABLE", " ", "users" >>,
      << "GRANT", " ", "ALL" >>,
      << "MERGE", " ", "INTO", " ", "users" >>,
      << "DELETED", " ", "users" >>,
      << "(", "SELECT", " ", "id", ")" >> }

\* cls(connection): the flags after __init__, and the record of the
\* operation run last (driver lists the driver calls it made, in order).
NewInstance(backend) ==
    [ backend |-> backend, _is_connected |-> FALSE, _connection |-> FALSE,
      lifecycle |-> "new", ops |-> 0,
      op |-> "none", query |-> << >>, driver |-> << >>,
      outcome |-> "none", value |-> None ]

Ran(k, op, query, driver, outcome, value) ==
    [ k EXCEPT !.ops = @ + 1, !.op = op, !.query = query, !.driver = driver,
               !.outcome = outcome, !.value = value ]

\* get_query_type of every backend hands the text to _parse_query_type.
get_query_type(backend, query) == _parse_query_type(query)

\* The statement leaves a result set on the cursor: it is a SELECT, bare or
\* in parentheses.
ReturnsRows(query) ==
    StartsWith_WholeWord(SelectSeq(query, LAMBDA x : ~IsWs(x) /\ x # "("), "SELECT")

\* QueryResult as the connector builds it; execution_time keeps its default.
ConnectorResult(qt, data, row_count, columns) ==
    [ kind |-> "QueryResult", success |-> TRUE, data |-> data,
      row_count |-> row_count, columns |-> columns,
      execution_time |-> "connector", error_message |-> << >>, query_type |-> qt ]

connect ==
    /\ connector.ops < MaxOps
    /\ \E ok \in BOOLEAN :
        connector' =
            IF ok
            THEN Ran([ connector EXCEPT !._connection = TRUE, !._is_connected = TRUE,
                                        !.lifecycle = "connected" ],
                     "connect", << >>, << "connect" >>, "returned", None)
            ELSE Ran([ connector EXCEPT !.lifecycle = "connect_failed" ],
                     "connect", << >>, << "connect" >>, "raised", ConnectionFailed)
    /\ UNCHANGED << text, ra, _connectors, conn, req, calls, overlapped, teardown, workload >>

\* disconnect() on instance k with the driver's close answering ok.
disconnected(k, ok) ==
    IF ~k._connection THEN [ k |-> k, driver |-> << >>, raised |-> FALSE ]
    ELSE IF ok
    THEN [ k |-> [ k EXCEPT !._connection = FALSE, !._is_connected = FALSE ],
           driver |-> << "close" >>, raised |-> FALSE ]
    ELSE [ k |-> k, driver |-> << "close" >>, raised |-> TRUE ]

disconnect ==
    /\ connector.ops < MaxOps
    /\ \E ok \in BOOLEAN :
        LET d == disconnected(connector, ok)
        IN connector' =
             IF d.raised THEN Ran(d.k, "disconnect", << >>, d.driver, "raised", CloseError)
             ELSE Ran([ d.k EXCEPT !.lifecycle = "disconnected" ],
                      "disconnect", << >>, d.driver, "returned", None)
    /\ UNCHANGED << text, ra, _connectors, conn, req, calls, overlapped, teardown, workload >>

close ==
    /\ connector.ops < MaxOps
    /\ \E ok \in BOOLEAN :
        connector' =
            IF ~connector._is_connected
            THEN Ran([ connector EXCEPT !.lifecycle = "closed" ],
                     "close", << >>, << >>, "returned", None)
            ELSE LET d == disconnected(connector, ok)
                 IN IF d.raised
                    THEN Ran(d.k, "close", << >>, d.driver, "raised", CloseError)
                    ELSE Ran([ d.k EXCEPT !._is_connected = FALSE, !.lifecycle = "closed" ],
                             "close", << >>, d.driver, "returned", None)
    /\ UNCHANGED << text, ra, _connectors, conn, req, calls, overlapped, teardown, workload >>

\* _execute on the worker pool: cursor.execute answered ok.  A statement
\* classified SELECT is fetched and not committed; when it left no result
\* set, fetchall raises or hands back nothing, as the driver decides.  Any
\* other statement is committed after its row count was read.
Executed(k, query, fetch_raises) ==
    LET qt == get_query_type(k.backend, query)
    IN IF qt = "SELECT"
       THEN IF ReturnsRows(query)
            THEN Ran(k, "execute_query", query, << "execute", "fetchall" >>, "returned",
                     ConnectorResult(qt, "rows", 1, "columns"))
            ELSE IF fetch_raises
            THEN Ran(k, "execute_query", query, << "execute", "fetchall" >>, "raised",
                     DriverError)
            ELSE Ran(k, "execute_query", query, << "execute", "fetchall" >>, "returned",
                     ConnectorResult(qt, "empty", 0, "empty"))
       ELSE Ran(k, "execute_query", query, << "execute", "commit" >>, "returned",
                ConnectorResult(qt, "absent", 1, "absent"))

execute_query ==
    /\ connector.ops < MaxOps
    /\ \E query \in ConnectorQueries, ok \in BOOLEAN, fetch_raises \in BOOLEAN :
        connector' =
            IF ~connector._is_connected
            THEN Ran(connector, "execute_query", query, << >>, "raised", NotConnected)
            ELSE IF ~ok
            THEN Ran(connector, "execute_query", query, << "execute" >>, "raised", DriverError)
            ELSE Executed(connector, query, fetch_raises)
    /\ UNCHANGED << text, ra, _connectors, conn, req, calls, overlapped, teardown, workload >>

\* get_schema and list_tables: guarded by the flag, then queries of the catalog.
Catalog(k, op, ok) ==
    IF ~k._is_connected
    THEN Ran(k, op, << >>, << >>, "raised", NotConnected)
    ELSE IF ok
    THEN Ran(k, op, << >>, << "execute", "fetchall" >>, "returned", Value(op))
    ELSE Ran(k, op, << >>, << "execute" >>, "raised", DriverError)

get_schema ==
    /\ connector.ops < MaxOps
    /\ \E ok \in BOOLEAN : connector' = Catalog(connector, "get_schema", ok)
    /\ UNCHANGED << text, ra, _connectors, conn, req, calls, overlapped, teardown, workload >>

list_tables ==
    /\ connector.ops < MaxOps
    /\ \E ok \in BOOLEAN : connector' = Catalog(connector, "list_tables", ok)
    /\ UNCHANGED << text, ra, _connectors, conn, req, calls, overlapped, teardown, workload >>

validate_syntax ==
    /\ connector.ops < MaxOps
    /\ \E query \in ConnectorQueries, ok \in BOOLEAN :
        connector' =
            IF ~connector._is_connected
            THEN Ran(connector, "validate_syntax", query, << >>, "returned", Bool(FALSE))
            ELSE Ran(connector, "validate_syntax", query, << "execute" >>, "returned", Bool(ok))
    /\ UNCHANGED << text, ra, _connectors, conn, req, calls, overlapped, teardown, workload >>

test_connection ==
    /\ connector.ops < MaxOps
    /\ \E ok \in BOOLEAN :
        connector' =
            IF ~connector._is_connected
            THEN Ran(connector, "test_connection", << >>, << >>, "returned", Bool(FALSE))
            ELSE IF ok
            THEN Ran(connector, "test_connection", << >>, << "execute", "fetchone" >>,
                     "returned", Bool(TRUE))
            ELSE Ran(connector, "test_connection", << >>, << "execute" >>,
                     "returned", Bool(FALSE))
    /\ UNCHANGED << text, ra, _connectors, conn, req, calls, overlapped, teardown, workload >>

GetQueryType ==
    /\ connector.ops < MaxOps
    /\ \E query \in ConnectorQueries :
        connector' = Ran(connector, "get_query_type", query, << >>, "returned",
                         [ kind |-> "QueryType",
                           type |-> get_query_type(connector.backend, query) ])
    /\ UNCHANGED << text, ra, _connectors, conn, req, calls, overlapped, teardown, workload >>

ConnectorInit ==
    /\ connector \in { NewInstance(backend) : backend \in Backends }
    /\ text = << >>
    /\ ra = None
    /\ _connectors = << >>
    /\ conn = << >>
    /\ req = [ r \in ReqIds |-> Idle ]
    /\ calls = 0
    /\ overlapped = FALSE
    /\ teardown = FALSE
    /\ workload = [ connections |-> Connections, limits |-> { DefaultLimits },
                   queries |-> Queries ]

ConnectorNext ==
    \/ connect
    \/ disconnect
    \/ close
    \/ execute_query
    \/ get_schema
    \/ list_tables
    \/ validate_syntax
    \/ test_connection
    \/ GetQueryType

ConnectorSpec == ConnectorInit /\ [][ConnectorNext]_vars

(***************************************************************************)
(* Properties                                                              *)
(***************************************************************************)
Range(f) == { f[i] : i \in DOMAIN f }
Active(rq) == rq.pc # "idle"
Done(rq) == rq.pc = "done"
ConnIds == 1..Len(conn)
KeyOf(c) == _conn_key(conn[c].connection)
\* The call in slot r ends in this step.
Finishes(r) == req[r].pc # "done" /\ req'[r].pc = "done"
\* connect() of connector c is in flight on the worker pool.
Connecting(c) == \E r \in ReqIds : req[r].pc = "connect" /\ req[r].c = c

\* C1: an execute_query call with validate_safety=true whose risk assessment
\* is unsafe has returned success=false with the assessment's recommendation
\* as error_message, and has neither resolved a connector, nor called
\* connect, nor called the connector's execute_query.
C1_UnsafeQueryNeverReachesConnector ==
    \A r \in ReqIds : \A notParsed \in NotParsed(req[r].query) :
        LET rq == req[r]
            a == assess_query_risk(rq.query, notParsed)
        IN (Active(rq) /\ rq.op = "execute_query" /\ rq.validate_safety /\ ~a.is_safe)
           => /\ Done(rq)
              /\ rq.outcome = "returned"
              /\ rq.value.kind = "QueryResult"
              /\ rq.value.success = FALSE
              /\ rq.value.error_message = a.recommendation
              /\ ~rq.resolved /\ ~rq.connected /\ ~rq.executed
              /\ rq.c = 0

\* An unsafe query was blocked while the cache held a connected connector
\* for the very connection it named.
C1_Witness ==
    \E r \in ReqIds :
        /\ Done(req[r]) /\ req[r].op = "execute_query" /\ req[r].validate_safety
        /\ req[r].query = QDropTable
        /\ req[r].value.kind = "QueryResult" /\ ~req[r].value.success
        /\ Get(_connectors, _conn_key(req[r].connection)) # 0
        /\ conn[Get(_connectors, _conn_key(req[r].connection))]._is_connected

\* C2: execute_query, validate_query and test_connection always return; when
\* an exception was raised on their path they return, respectively, a failed
\* QueryResult carrying the exception text, an assessment with
\* is_safe=false, and false.
C2_FailuresAreNormalized ==
    \A r \in ReqIds :
        LET rq == req[r]
        IN (Done(rq) /\ rq.op \in { "execute_query", "validate_query", "test_connection" })
           => /\ rq.outcome = "returned"
              /\ rq.failure # None =>
                    CASE rq.op = "execute_query" ->
                            /\ rq.value.kind = "QueryResult"
                            /\ rq.value.success = FALSE
                            /\ rq.value.error_message = rq.failure.msg
                      [] rq.op = "validate_query" ->
                            /\ rq.value.kind = "QueryRiskAssessment"
                            /\ rq.value.a.is_safe = FALSE
                      [] rq.op = "test_connection" -> rq.value = Bool(FALSE)

\* One call ended on a failed connect and another on an unsupported backend.
C2_Witness ==
    \E r, s \in ReqIds :
        /\ Done(req[r]) /\ req[r].op = "test_connection"
        /\ req[r].failure = ConnectionFailed
        /\ Done(req[s]) /\ req[s].op = "validate_query"
        /\ req[s].failure # None /\ req[s].failure.type = "ValueError"

\* C3: with no teardown, at most one connector per identity key is being
\* connected or holds an open connection, whatever the interleaving.
C3_OneConnectionPerKey ==
    ~teardown =>
        \A c, d \in ConnIds :
            (c # d /\ KeyOf(c) = KeyOf(d))
            => ~( (Connecting(c) \/ conn[c].native = "open")
                  /\ (Connecting(d) \/ conn[d].native = "open") )

\* C4 as stated: in a sequential run with no teardown, connect is called at
\* most once per identity key.
C4_ConnectCalledOncePerKey ==
    (~overlapped /\ ~teardown) =>
        \A c, d \in ConnIds : KeyOf(c) = KeyOf(d) => c = d

\* C4 as amended: in a sequential run with no teardown, once connect has
\* succeeded for an identity key no further connector is constructed for it,
\* every call that holds a connected connector holds the cached one, and the
\* connector was constructed for the call's own backend, host, port,
\* database and user (another port means another connector).
C4_ConnectorReusedAfterSuccess ==
    (~overlapped /\ ~teardown) =>
        /\ \A c, d \in ConnIds :
              (c < d /\ KeyOf(c) = KeyOf(d)) => conn[c].native = "none"
        /\ \A r \in ReqIds :
              (req[r].c # 0 /\ conn[req[r].c].native = "open")
              => LET used == conn[req[r].c].connection
                     asked == req[r].connection
                 IN /\ Get(_connectors, _conn_key(asked)) = req[r].c
                    /\ used.database_type = asked.database_type
                    /\ used.host = asked.host
                    /\ used.port = asked.port
                    /\ used.database = asked.database
                    /\ used.username = asked.username
        /\ \A i, j \in 1..Len(_connectors) :
              i # j => _connectors[i].c # _connectors[j].c

\* Three sequential calls: two connections that differ in port only were
\* connected, and the third call reused a cached connector without connect.
C4_Witness ==
    /\ ~overlapped /\ ~teardown /\ calls = 3
    /\ Len(_connectors) = 2
    /\ \E r \in ReqIds :
          /\ Done(req[r]) /\ req[r].outcome = "returned"
          /\ req[r].c # 0 /\ ~req[r].connected
          /\ req[r].c = Get(_connectors, _conn_key(req[r].connection))

\* C5: a finished close_all_connections has invoked close on every
\* connector that was cached when it was called.
C5_EveryCachedConnectorClosed ==
    \A r \in ReqIds :
        (Done(req[r]) /\ req[r].op = "close_all_connections")
        => \A i \in 1..Len(req[r].prior) : req[r].prior[i].c \in Range(req[r].closed)

\* C6: when close_all_connections ends in a sequential run, normally or by
\* a raised close, the cache is empty and close was invoked exactly once on
\* the connector of every key cached before the call.
C6_CacheEmptyAfterCloseAll ==
    [][ \A r \in ReqIds :
          (Finishes(r) /\ req'[r].op = "close_all_connections" /\ ~overlapped')
          => /\ _connectors' = << >>
             /\ \A i \in 1..Len(req'[r].prior) :
                   Cardinality({ n \in 1..Len(req'[r].closed) :
                                   req'[r].closed[n] = req'[r].prior[i].c }) = 1
      ]_vars

\* C7: when close_connection ends in a sequential run, the key of its
\* connection is no longer cached, close was called on the connector that
\* was cached under it, and with no entry for the key nothing changed.
C7_CloseConnectionRemovesEntry ==
    [][ \A r \in ReqIds :
          (Finishes(r) /\ req'[r].op = "close_connection" /\ ~overlapped')
          => LET key == _conn_key(req'[r].connection)
                 was == Get(req'[r].prior, key)
             IN /\ Get(_connectors', key) = 0
                /\ was # 0 => req'[r].closed = << was >>
                /\ was = 0 => (_connectors' = req'[r].prior /\ conn' = conn
                               /\ req'[r].closed = << >>)
      ]_vars

\* C8: every dangerous pattern that matches the text is named in
\* dangerous_operations of the assessment, and the assessment is unsafe.
C8_MatchedPatternsReported ==
    ra # None =>
        \A n \in 1..Len(PatternNames) :
            PatternMatches(PatternNames[n], text)
            => /\ ra.a.is_safe = FALSE
               /\ PatternNames[n] \in Range(ra.a.dangerous_operations)

\* An assessment of a text that matches three patterns at once.
C8_Witness ==
    /\ ra # None
    /\ Cardinality({ n \in 1..Len(PatternNames) : PatternMatches(PatternNames[n], text) }) >= 3
    /\ Len(ra.a.dangerous_operations) >= 3

\* C9: the score of every assessment lies in [0, 100] (in tenths of a point).
C9_ScoreWithinBounds ==
    ra # None => (ra.a.risk_score >= 0 /\ ra.a.risk_score <= 100 * ComplexityDivisor)

\* An assessment whose heuristics add up to more than 100 points.
C9_Witness ==
    /\ ra # None
    /\ RawScore(text) > 100 * ComplexityDivisor
    /\ ra.a.risk_score = 100 * ComplexityDivisor

\* C10: the level of every assessment a call returned is the threshold
\* function of its score: >= 90 critical, >= 70 high, >= 40 medium, else low.
C10_LevelFollowsScore ==
    \A r \in ReqIds :
        (Done(req[r]) /\ req[r].value.kind = "QueryRiskAssessment")
        => LET points == req[r].value.a.risk_score
           IN req[r].value.a.risk_level =
                 IF points >= 90 * ComplexityDivisor THEN "critical"
                 ELSE IF points >= 70 * ComplexityDivisor THEN "high"
                 ELSE IF points >= 40 * ComplexityDivisor THEN "medium"
                 ELSE "low"

\* C11: for a text that parsed, the assessment is safe exactly when no
\* dangerous pattern matched, no UPDATE/DELETE lacks its WHERE, no system
\* command occurs, and the clamped score is below 70.
C11_SafeIffNoForcingBelowHigh ==
    (ra # None /\ ra.a # ParseFailure)
    => (ra.a.is_safe
        <=> /\ \A n \in 1..Len(PatternNames) : ~PatternMatches(PatternNames[n], text)
            /\ ~_has_missing_where_clause(text)
            /\ ~_contains_system_commands(text)
            /\ ra.a.risk_score < 70 * ComplexityDivisor)

\* A text that parsed, scores below 70 and matches no dangerous pattern, and
\* is unsafe because of a system command alone.
C11_Witness ==
    /\ ra # None
    /\ ra.a # ParseFailure
    /\ ra.a.dangerous_operations = << >>
    /\ ~_has_missing_where_clause(text)
    /\ _contains_system_commands(text)
    /\ ra.a.risk_score < 70 * ComplexityDivisor
    /\ ~ra.a.is_safe

\* C12: the assessment of "DELETE FROM users" names exactly delete_all
\* (+30), carries the data-modification (+15) and missing-WHERE (+20)
\* warnings and no other, scores 65, is medium and is unsafe.
C12_DeleteFromUsers ==
    (ra # None /\ text = << "DELETE", " ", "FROM", " ", "users" >>)
    => /\ ra.a.dangerous_operations = << "delete_all" >>
       /\ ra.a.warnings =
             << << "Dangerous operation detected: ", "delete_all" >>,
                << "Data modification operation detected" >>,
                << "UPDATE/DELETE query without WHERE clause" >> >>
       /\ ra.a.risk_score = (30 + 15 + 20) * ComplexityDivisor
       /\ ra.a.risk_level = "medium"
       /\ ra.a.is_safe = FALSE

\* "DELETE FROM users" has been assessed.
C12_Witness ==
    /\ ra # None
    /\ text = << "DELETE", " ", "FROM", " ", "users" >>
    /\ ra.a.risk_score = 65 * ComplexityDivisor

\* C13: the assessment of "SELECT * FROM users" carries the wildcard
\* warning, scores 10, is low and is safe.
C13_SelectStarFromUsers ==
    (ra # None /\ text = << "SELECT", " ", "*", " ", "FROM", " ", "users" >>)
    => /\ << "Wildcard SELECT statement detected" >> \in Range(ra.a.warnings)
       /\ ra.a.risk_score = 10 * ComplexityDivisor
       /\ ra.a.risk_level = "low"
       /\ ra.a.is_safe = TRUE

\* C14: a validate_query call whose syntax check answered "invalid" returns
\* the risk checker's assessment of the text with is_safe forced to false
\* and the recommendation replaced by the syntax-error message; one whose
\* syntax check answered "valid" returns exactly the risk checker's
\* assessment of the text.
C14_SyntaxVerdictOverridesAssessment ==
    \A r \in ReqIds :
        (Done(req[r]) /\ req[r].op = "validate_query" /\ req[r].syntax_ok # "none")
        => \E notParsed \in NotParsed(req[r].query) :
              LET engine == assess_query_risk(req[r].query, notParsed)
                  a == req[r].value.a
              IN /\ req[r].outcome = "returned"
                 /\ req[r].value.kind = "QueryRiskAssessment"
                 /\ IF req[r].syntax_ok = "invalid"
                    THEN /\ a.is_safe = FALSE
                         /\ a.recommendation = << "Query has syntax errors" >>
                         /\ a.risk_score = engine.risk_score
                         /\ a.risk_level = engine.risk_level
                         /\ a.warnings = engine.warnings
                         /\ a.dangerous_operations = engine.dangerous_operations
                    ELSE a = engine

\* A text the risk checker finds safe was reported invalid by the connector.
C14_Witness ==
    \E r \in ReqIds :
        /\ Done(req[r])
        /\ req[r].op = "validate_query"
        /\ req[r].syntax_ok = "invalid"
        /\ assess_query_risk(req[r].query, FALSE).is_safe
        /\ ~req[r].value.a.is_safe

\* C15: get_query_type answers with the leading word of the trimmed
\* statement when that word is one of SELECT, INSERT, UPDATE, DELETE, CREATE,
\* ALTER, DROP, and with SELECT for every other statement, the empty one
\* included, on every backend.
C15_ClassifiedByLeadingKeyword ==
    connector.op = "get_query_type"
    => LET q == Strip(connector.query)
       IN connector.value.type =
             IF q # << >> /\ Head(q) \in Range(QueryTypes) THEN Head(q) ELSE "SELECT"

\* C16: a data operation (execute_query, get_schema, list_tables,
\* validate_syntax, test_connection) run on a connector that is not
\* connected raises "Not connected" and makes no driver call.
C16_DisconnectedOperationsFail ==
    (/\ connector.op \in { "execute_query", "get_schema", "list_tables",
                            "validate_syntax", "test_connection" }
     /\ ~connector._is_connected)
    => /\ connector.outcome = "raised"
       /\ connector.value = NotConnected
       /\ connector.driver = << >>

\* C17: a call whose connect failed ends with the ConnectionError and its
\* message (returned in normalized form by the catching operations, raised
\* by the others); the connector it built is not connected and holds no
\* native connection, and the cache holds no entry for it.  No connector
\* ever has the flag without the handle or the handle without the flag.  A
\* call that finds no cache entry for its key, of a supported type, calls
\* connect.
C17_FailedConnectLeavesNothing ==
    /\ \A c \in ConnIds : conn[c]._is_connected = conn[c]._connection
    /\ \A r \in ReqIds :
        /\ req[r].failure = ConnectionFailed
           => /\ ~conn[req[r].c]._is_connected
              /\ ~conn[req[r].c]._connection
              /\ conn[req[r].c].native = "none"
              /\ \A i \in 1..Len(_connectors) : _connectors[i].c # req[r].c
              /\ Done(req[r])
              /\ CASE req[r].op = "execute_query" ->
                        req[r].value = FailedResult(ConnectionFailed.msg)
                   [] req[r].op = "validate_query" ->
                        /\ req[r].value.kind = "QueryRiskAssessment"
                        /\ req[r].value.a.recommendation =
                              << "Validation failed: " >> \o ConnectionFailed.msg
                   [] req[r].op = "test_connection" -> req[r].value = Bool(FALSE)
                   [] OTHER -> req[r].outcome = "raised" /\ req[r].value = ConnectionFailed
        /\ (/\ req[r].resolved
            /\ req[r].connection.database_type \in _connector_types
            /\ Get(req[r].prior, _conn_key(req[r].connection)) = 0)
           => req[r].connected

\* After a call's connect failed, a later call for the same key built a
\* connector of its own and called connect again.
C17_Witness ==
    \E r \in ReqIds, d \in ConnIds :
        /\ req[r].failure = ConnectionFailed
        /\ d > req[r].c
        /\ KeyOf(d) = KeyOf(req[r].c)

\* C18: on a connected connector, execute_query of a SELECT that the driver
\* ran returns rows, columns and a row count without a commit; a statement
\* that is not a read, once the driver ran it, is committed right after and
\* returns the affected-row count only; a statement the driver refused is
\* not committed.
C18_NonReadsCommitted ==
    (connector.op = "execute_query" /\ connector._is_connected)
    => /\ connector.driver # << >>
       /\ Head(connector.driver) = "execute"
       /\ Len(connector.driver) = 1
          => connector.outcome = "raised"
       /\ (Len(connector.driver) > 1 /\ ReturnsRows(connector.query))
          => /\ connector.driver = << "execute", "fetchall" >>
             /\ connector.outcome = "returned"
             /\ connector.value.data = "rows"
             /\ connector.value.columns = "columns"
       /\ (Len(connector.driver) > 1 /\ ~ReturnsRows(connector.query)
              /\ Strip(connector.query) # << >>)
          => /\ connector.driver = << "execute", "commit" >>
             /\ connector.outcome = "returned"
             /\ connector.value.data = "absent"
             /\ connector.value.columns = "absent"

\* C19: every execute_query call ends by returning a QueryResult whose
\* execution_time was set by the multiplexer, measured from the start of the
\* call, and which carries no rows when success is false.
C19_QueryResultInvariant ==
    \A r \in ReqIds :
        (Done(req[r]) /\ req[r].op = "execute_query")
        => /\ req[r].outcome = "returned"
           /\ req[r].value.kind = "QueryResult"
           /\ req[r].value.execution_time = "multiplexer"
           /\ ~req[r].value.success => req[r].value.data = FALSE

\* One call came back from the connector with rows while another was
\* answered with success=false.
C19_Witness ==
    \E r, s \in ReqIds :
        /\ Done(req[r]) /\ req[r].op = "execute_query"
        /\ req[r].value.success /\ req[r].value.data
        /\ Done(req[s]) /\ req[s].op = "execute_query"
        /\ ~req[s].value.success

\* The five fields of the identity.
SameIdentity(a, b) ==
    /\ a.database_type = b.database_type
    /\ a.host = b.host
    /\ a.port = b.port
    /\ a.database = b.database
    /\ a.username = b.username

\* C20: descriptors equal in database_type, host, port, database and username
\* have the same key, whatever their password, ssl_mode, connection_timeout
\* and pool_size; a call whose descriptor is equal in these five fields to
\* that of a connector cached when the call resolved uses that connector and
\* calls no connect.
C20_IdentityIgnoresOtherFields ==
    /\ \A a, b \in Connections : SameIdentity(a, b) => _conn_key(a) = _conn_key(b)
    /\ \A r \in ReqIds :
          req[r].resolved
          => \A i \in 1..Len(req[r].prior) :
                SameIdentity(conn[req[r].prior[i].c].connection, req[r].connection)
                => /\ req[r].c = req[r].prior[i].c
                   /\ ~req[r].connected

\* A call was served by a cached connector that was built from a descriptor
\* with another password, ssl_mode, connection_timeout and pool_size.
C20_Witness ==
    \E r \in ReqIds :
        /\ req[r].resolved
        /\ ~req[r].connected
        /\ req[r].c # 0
        /\ conn[req[r].c].connection.password # req[r].connection.password
        /\ conn[req[r].c].connection.pool_size # req[r].connection.pool_size

\* C21: a call is served only by a connector built from a descriptor with
\* the call's own database_type, host, port, database and username.
C21_DistinctIdentitiesDistinctConnectors ==
    \A r \in ReqIds :
        (req[r].resolved /\ req[r].c # 0)
        => SameIdentity(conn[req[r].c].connection, req[r].connection)

\* C22: the driver is handed the query text of a call made with safety
\* validation on (execute_query with validate_safety, validate_query) only
\* when the risk checker finds that text safe.
C22_UnsafeTextNeverReachesDriver ==
    \A r \in ReqIds :
        (/\ req[r].pc = "driver"
         /\ \/ req[r].op = "execute_query" /\ req[r].validate_safety
            \/ req[r].op = "validate_query")
        => \E notParsed \in NotParsed(req[r].query) :
              assess_query_risk(req[r].query, notParsed).is_safe

\* C23: no two calls have a worker-pool operation (a statement on the driver
\* or the driver's close) in flight on the same connector at the same time.
C23_ConnectorUsedExclusively ==
    \A r, s \in ReqIds :
        (/\ r # s
         /\ req[r].pc \in { "driver", "close" }
         /\ req[s].pc \in { "driver", "close" })
        => req[r].c # req[s].c

\* C24: whatever the other calls' driver calls do, even if they never
\* return, a call of the last caller that is waiting for the worker pool
\* completes.
C24_UnrelatedRequestCompletes ==
    (req[NumReq].pc \in { "connect", "driver", "close" }) ~> Done(req[NumReq])

\* While the first caller's statement is still running on the connector it
\* opened, a call for another key that began after it has run its own
\* statement and returned its rows.
C24_Witness ==
    /\ req[1].pc = "driver"
    /\ req[1].connected
    /\ Done(req[NumReq])
    /\ req[NumReq].op = "execute_query"
    /\ req[NumReq].value.success
    /\ _conn_key(req[NumReq].connection) # _conn_key(req[1].connection)
    /\ \E i \in 1..Len(req[NumReq].prior) : req[NumReq].prior[i].c = req[1].c

\* Two execute_query calls that differ only in their limits (the callers'
\* limits differ in timeout and in max_rows together).
C25_DifferInLimits(a, b) ==
    /\ a.op = "execute_query" /\ b.op = "execute_query"
    /\ a.connection = b.connection
    /\ a.query = b.query
    /\ a.validate_safety = b.validate_safety
    /\ a.timeout # b.timeout

\* C25: two execute_query calls that differ only in timeout or max_rows
\* hand the connector the same driver call, and when the driver answers
\* both they return the same result, with every row the statement found.
C25_LimitsHaveNoEffect ==
    \A r, s \in ReqIds :
        C25_DifferInLimits(req[r], req[s])
        => /\ (req[r].executed /\ req[s].executed) => req[r].sent = req[s].sent
           /\ (/\ Done(req[r]) /\ Done(req[s])
               /\ req[r].value.success /\ req[s].value.success)
              => /\ req[r].value = req[s].value
                 /\ req[r].value.row_count = RowsFound

\* A query limited to one row and the same query without limits have both
\* been run, and the limited one returned more rows than its max_rows.
C25_Witness ==
    \E r, s \in ReqIds :
        /\ C25_DifferInLimits(req[r], req[s])
        /\ req[r].timeout = TightLimits.timeout
        /\ req[s].timeout = DefaultLimits.timeout
        /\ Done(req[r]) /\ Done(req[s])
        /\ req[r].value.success /\ req[s].value.success
        /\ req[r].value.row_count > req[r].max_rows

\* C26: a step of execute_query, validate_query, get_database_schema,
\* list_tables or test_connection, whether the call succeeds or fails,
\* leaves every existing cache entry as it was: the key still leads to the
\* same connector.
C26_QueriesKeepCacheEntries ==
    [][ \A r \in ReqIds :
          (/\ req'[r] # req[r]
           /\ req[r].op \in { "execute_query", "validate_query", "get_database_schema",
                              "list_tables", "test_connection" })
          => \A i \in 1..Len(_connectors) :
                Get(_connectors', _connectors[i].key) = _connectors[i].c ]_vars

\* No condition that clears "safe" holds of the text.
C27_NoForcing ==
    /\ \A n \in 1..Len(PatternNames) : ~PatternMatches(PatternNames[n], text)
    /\ ~_has_missing_where_clause(text)
    /\ ~_contains_system_commands(text)

\* C27: the weights that do not clear "safe" (data modification, schema
\* change, wildcard, full complexity) add up to less than the high
\* threshold; so for a text that parsed the assessment is safe exactly when
\* no forcing condition holds, and then the score is at most that sum. Every
\* safe assessment is low or medium, every high or critical one is unsafe.
C27_SafeAssessmentsAreLowOrMedium ==
    /\ W_data_modification + W_schema_change + W_wildcard_select + W_complex_query
          < T_high
    /\ (ra # None /\ ra.a # ParseFailure)
       => /\ ra.a.is_safe <=> C27_NoForcing
          /\ C27_NoForcing
             => ra.a.risk_score <= Pts(W_data_modification + W_schema_change
                                          + W_wildcard_select + W_complex_query)
    /\ ra # None
       => /\ ra.a.is_safe => ra.a.risk_level \in { "low", "medium" }
          /\ ra.a.risk_level \in { "high", "critical" } => ~ra.a.is_safe

\* A text that modifies data and changes the schema with no forcing
\* condition: it reaches the medium threshold and is safe.
C27_Witness ==
    /\ ra # None
    /\ ra.a # ParseFailure
    /\ C27_NoForcing
    /\ _is_data_modification_query(text)
    /\ _is_schema_change_query(text)
    /\ ra.a.risk_score >= Pts(T_medium)
    /\ ra.a.risk_level = "medium"
    /\ ra.a.is_safe

\* C28: every connector whose native connection is open is cached or has
\* had close called on it.
C28_NoOpenConnectionLeaked ==
    \A c \in ConnIds :
        conn[c].native = "open"
        => \/ \E i \in 1..Len(_connectors) : _connectors[i].c = c
           \/ conn[c].close_invoked

\* C29: a step of close_connection or close_all_connections takes out of
\* the cache only connectors the call has called close on, and the call
\* never fails because the key it deletes is gone.
C29_TeardownRemovesOnlyWhatItClosed ==
    [][ \A r \in ReqIds :
          (/\ req'[r] # req[r]
           /\ req'[r].op \in { "close_connection", "close_all_connections" })
          => /\ \A i \in 1..Len(_connectors) :
                   Get(_connectors', _connectors[i].key) # _connectors[i].c
                   => _connectors[i].c \in Range(req'[r].closed)
             /\ \A i \in 1..Len(_connectors) :
                   req'[r].failure # MissingKey(_connectors[i].key)
             /\ \A i \in 1..Len(req'[r].prior) :
                   req'[r].failure # MissingKey(req'[r].prior[i].key) ]_vars

\* C30: between any two steps, every connector in the cache has its
\* connected flag set.
C30_CachedConnectorsAreConnected ==
    \A i \in 1..Len(_connectors) : conn[_connectors[i].c]._is_connected

\* A connector was closed and is out of the cache, and a call for its
\* key has opened and cached another connector, which is connected.
C30_Witness ==
    \E c \in ConnIds, r \in ReqIds :
        /\ conn[c].close_invoked
        /\ ~conn[c]._is_connected
        /\ \A i \in 1..Len(_connectors) : _connectors[i].c # c
        /\ req[r].resolved
        /\ req[r].c # c
        /\ _conn_key(req[r].connection) = KeyOf(c)
        /\ Get(_connectors, KeyOf(c)) = req[r].c
        /\ conn[req[r].c]._is_connected

====
